---------------------------- MODULE Spec2Model ----------------------------
(***************************************************************************)
(* A model of papro-rusty's k-mer counting engine (src/src/kmer) and its   *)
(* profile comparison engine (src/src/profile/analyzer.rs) over the        *)
(* profile store (src/src/db).                                             *)
(*                                                                         *)
(* A byte is a one-element string ("A", "C", "G", "T"; "xFF" and "xFE"     *)
(* stand for the bytes 0xFF and 0xFE, which are no valid UTF-8).  A        *)
(* sequence (&[u8]) is a tuple of bytes, a Kmer is the tuple of its bytes, *)
(* and a String is the tuple of its chars.                                 *)
(***************************************************************************)
EXTENDS Integers, Sequences, FiniteSets, TLC

(***************************************************************************)
(* Bounds of the model.                                                    *)
(***************************************************************************)
\* the counter's window size k is drawn from 0..MaxK (usize has no lower bound but 0)
MaxK == 3
\* the generated input sequences have at most MaxLen bytes
MaxLen == 1
\* at most MaxSeqs count_sequence calls are made on one counter
MaxSeqs == 2
\* the thread pool has NumWorkers workers
NumWorkers == 2

Workers == 1..NumWorkers

\* the alphabet the reader lets through (io/reader.rs:56)
Bases == {"A", "C", "G", "T"}
\* the bytes of the generated inputs
PoolBases == {"A", "T"}

RECURSIVE SeqsOfLen(_, _)
SeqsOfLen(S, n) ==
    IF n = 0 THEN {<<>>}
    ELSE {Append(s, b) : s \in SeqsOfLen(S, n - 1), b \in S}

SeqsUpTo(S, n) == UNION {SeqsOfLen(S, i) : i \in 0..n}

\* the inputs of the unit tests of kmer/counter.rs
TestVectors ==
    { <<"A", "T", "G", "A", "T", "G">>,
      <<"A", "T">>,
      <<"A", "T", "C", "G">>,
      <<"C", "G", "A", "T">>,
      <<>> }

\* inputs that hold bytes outside the alphabet (the counter does not validate)
RawVectors == { <<"xFF">>, <<"xFE">> }

Pool == SeqsUpTo(PoolBases, MaxLen) \cup TestVectors \cup RawVectors

IsACGT(seq) == \A i \in 1..Len(seq) : seq[i] \in Bases

(***************************************************************************)
(* Kmer (kmer/types.rs)                                                    *)
(***************************************************************************)
\* Kmer::new: the k-mer owns a copy of the window's bytes
KmerNew(window) == window

\* String::from_utf8_lossy on one byte: an ASCII byte is its char, a byte that
\* is no valid UTF-8 becomes U+FFFD
Utf8LossyChar(b) == IF b \in {"xFF", "xFE"} THEN "uFFFD" ELSE b

\* a slip: the text is taken from the second byte on
KmerSequenceTail(kmer) == [i \in 1..(Len(kmer) - 1) |-> Utf8LossyChar(kmer[i + 1])]

\* Kmer::sequence
KmerSequence(kmer) == [i \in 1..Len(kmer) |-> Utf8LossyChar(kmer[i])]

\* the bytes one char takes in a String
Utf8Len(ch) == IF ch = "uFFFD" THEN 3 ELSE 1

RECURSIVE StrLen(_)
\* String::len: the length in bytes
StrLen(t) == IF t = <<>> THEN 0 ELSE Utf8Len(Head(t)) + StrLen(Tail(t))

(***************************************************************************)
(* Tables: a map is a function whose domain is its key set.                *)
(***************************************************************************)
EmptyMap == << >>

MapGet(m, key) == IF key \in DOMAIN m THEN m[key] ELSE 0

MapPut(m, key, v) == [x \in (DOMAIN m) \cup {key} |-> IF x = key THEN v ELSE m[x]]

RECURSIVE MapSum(_)
MapSum(m) ==
    IF DOMAIN m = {} THEN 0
    ELSE LET x == CHOOSE y \in DOMAIN m : TRUE
         IN  m[x] + MapSum([y \in (DOMAIN m) \ {x} |-> m[y]])

VARIABLES
    k,          \* KmerCounter.k
    counts,     \* KmerCounter.counts: Kmer -> count
    wpc,        \* each worker's place in count_sequence
    wseq,       \* the sequence a worker is counting
    wpos,       \* the start (1-based) of the worker's current window
    wtmp,       \* the count the worker found in the entry it holds
    wret,       \* what the worker's last count_sequence call returned
    ingested,   \* history: the sequences given to count_sequence, each with the number of calls
    gcPc,       \* the accessor thread's place
    gcStart,    \* history: the table when get_counts was called
    gcVisited,  \* the entries get_counts's iterator has passed
    gcResult,   \* the HashMap<String, usize> get_counts collects
    gcTables,   \* history: every table the counter held at some instant of the call
    obs,        \* the last values of kmer_size(), unique_kmers(), total_kmers()
    profiles,   \* the rows of table profiles: [id, name, taxonomy_level, k, total_kmers]
    kmers,      \* the rows of table kmers: [profile_id, kmer, frequency]
    out,        \* what the last command on the store or the analyzer returned
    tx          \* the open rusqlite Transaction of the store, if any

vars == <<k, counts, wpc, wseq, wpos, wtmp, wret, ingested,
          gcPc, gcStart, gcVisited, gcResult, gcTables, obs, profiles, kmers, out, tx>>

storeVars == <<profiles, kmers, out, tx>>
counterVars == <<k, counts, ingested>>

workerVars == <<wpc, wseq, wpos, wtmp, wret>>
readerVars == <<gcPc, gcStart, gcVisited, gcResult, gcTables, obs>>

NoObs == [kmer_size |-> -1, unique_kmers |-> -1, total_kmers |-> -1]

(***************************************************************************)
(* KmerCounter (kmer/counter.rs)                                           *)
(***************************************************************************)
\* a slip: the last window is left out
LastPosShort(kk, seq) == Len(seq) - kk

\* the last window start of sequence.windows(k), for a counter of window size kk
LastPos(kk, seq) == Len(seq) - kk + 1

\* a slip: the window is one byte short
WindowShort(kk, seq, pos) == SubSeq(seq, pos, pos + kk - 2)

\* the window of width kk that starts at pos
Window(kk, seq, pos) == SubSeq(seq, pos, pos + kk - 1)

\* count_sequence's early return
TooShort(kk, seq) == Len(seq) < kk

\* a slip: a sequence shorter than k is refused
ShortResultErr == "Err"

\* what the early return gives the caller
ShortResult == "Ok"

\* no call of count_sequence is in progress
Quiescent == \A w \in Workers : wpc[w] = "idle"

\* a slip: a map without the entry lock (look-up and write are not atomic)
EntryFreeRacy(w, kmer) == TRUE

\* DashMap::entry takes the write lock of the key's shard: the entry is free
\* when no other worker holds an entry of the same key
EntryFree(w, kmer) ==
    \A o \in Workers \ {w} :
        ~(wpc[o] = "entry" /\ KmerNew(Window(k, wseq[o], wpos[o])) = kmer)

\* a slip: the table is replaced by the one entry instead of updated
EntryUpsertFresh(table, kmer, found) == [x \in {kmer} |-> found + 1]

\* the entry's value after and_modify(|count| *count += 1).or_insert(1); the
\* other entries of the table stay
EntryUpsert(table, kmer, found) == MapPut(table, kmer, found + 1)

RECURSIVE CountWindows(_, _, _, _)
\* sequence.windows(k).for_each(..) run by one thread, from window pos on
CountWindows(kk, table, seq, pos) ==
    IF pos > LastPos(kk, seq) THEN table
    ELSE LET kmer == KmerNew(Window(kk, seq, pos))
         IN  CountWindows(kk, EntryUpsert(table, kmer, MapGet(table, kmer)), seq, pos + 1)

\* count_sequence run by one thread with nothing else running (with k = 0 it
\* panics before it touches the table)
CountSequence(kk, table, seq) ==
    IF TooShort(kk, seq) \/ kk = 0 THEN table ELSE CountWindows(kk, table, seq, 1)

RECURSIVE CountAll(_, _, _)
\* count_sequence on each sequence of seqs, one after another
CountAll(kk, table, seqs) ==
    IF seqs = <<>> THEN table
    ELSE CountAll(kk, CountSequence(kk, table, Head(seqs)), Tail(seqs))

NoOut == [op |-> "none"]

\* no transaction is open on the connection
NoTx == [kind |-> "none"]

\* a fresh counter with idle workers, and an empty store (initialize_schema)
InitFresh ==
    /\ counts = EmptyMap
    /\ wpc = [w \in Workers |-> "idle"]
    /\ wseq = [w \in Workers |-> <<>>]
    /\ wpos = [w \in Workers |-> 0]
    /\ wtmp = [w \in Workers |-> 0]
    /\ wret = [w \in Workers |-> "none"]
    /\ ingested = EmptyMap
    /\ gcPc = "idle"
    /\ gcStart = EmptyMap
    /\ gcVisited = EmptyMap
    /\ gcResult = EmptyMap
    /\ gcTables = {}
    /\ obs = NoObs
    /\ profiles = {}
    /\ kmers = {}
    /\ out = NoOut
    /\ tx = NoTx

\* KmerCounter::new
Init == k \in 0..MaxK /\ InitFresh

\* the worker that takes the next call: the workers of the pool are
\* interchangeable, so the idle worker of the lowest number stands for any
NextWorker(w) ==
    /\ wpc[w] = "idle"
    /\ \A o \in Workers : o < w => wpc[o] # "idle"

\* count_sequence is called by worker w (directly, or for one item of
\* count_sequences): the length check, then sequence.windows(k)
CountSequenceCall(w, seq) ==
    /\ NextWorker(w)
    /\ MapSum(ingested) < MaxSeqs
    /\ ingested' = MapPut(ingested, seq, MapGet(ingested, seq) + 1)
    /\ wtmp' = [wtmp EXCEPT ![w] = 0]
    /\ wseq' = [wseq EXCEPT ![w] = IF TooShort(k, seq) \/ k = 0 THEN <<>> ELSE seq]
    /\ IF TooShort(k, seq)
       THEN /\ wpc' = wpc
            /\ wpos' = [wpos EXCEPT ![w] = 0]
            /\ wret' = [wret EXCEPT ![w] = ShortResult]
       ELSE IF k = 0
       THEN \* slice::windows panics when the size is 0
            /\ wpc' = [wpc EXCEPT ![w] = "panicked"]
            /\ wpos' = [wpos EXCEPT ![w] = 0]
            /\ wret' = [wret EXCEPT ![w] = "panic"]
       ELSE /\ wpc' = [wpc EXCEPT ![w] = "window"]
            /\ wpos' = [wpos EXCEPT ![w] = 1]
            /\ wret' = [wret EXCEPT ![w] = "none"]
    /\ UNCHANGED <<k, counts, storeVars>>

\* self.counts.entry(kmer): lock the entry and look the key up
EntryLock(w) ==
    /\ wpc[w] = "window"
    /\ LET kmer == KmerNew(Window(k, wseq[w], wpos[w]))
       IN  /\ EntryFree(w, kmer)
           /\ wtmp' = [wtmp EXCEPT ![w] = MapGet(counts, kmer)]
    /\ wpc' = [wpc EXCEPT ![w] = "entry"]
    /\ UNCHANGED <<k, counts, wseq, wpos, wret, ingested, storeVars>>

\* .and_modify(|count| *count += 1).or_insert(1), the entry is released, and
\* for_each goes on to the next window or count_sequence returns Ok(())
EntryWrite(w) ==
    /\ wpc[w] = "entry"
    /\ LET kmer == KmerNew(Window(k, wseq[w], wpos[w]))
       IN  counts' = EntryUpsert(counts, kmer, wtmp[w])
    /\ wtmp' = [wtmp EXCEPT ![w] = 0]
    /\ IF wpos[w] < LastPos(k, wseq[w])
       THEN /\ wpos' = [wpos EXCEPT ![w] = wpos[w] + 1]
            /\ wpc' = [wpc EXCEPT ![w] = "window"]
            /\ wret' = wret
       ELSE /\ wpos' = [wpos EXCEPT ![w] = 0]
            /\ wpc' = [wpc EXCEPT ![w] = "idle"]
            /\ wret' = [wret EXCEPT ![w] = "Ok"]
    /\ wseq' = [wseq EXCEPT ![w] = IF wpos[w] < LastPos(k, wseq[w]) THEN wseq[w] ELSE <<>>]
    /\ UNCHANGED <<k, ingested, storeVars>>

\* the accessor thread holds no result
ReaderIdle == gcPc = "idle" /\ obs = NoObs

\* get_counts is called: self.counts.iter()
GetCountsBegin ==
    /\ ReaderIdle
    /\ gcPc' = "iter"
    /\ gcStart' = counts
    /\ gcVisited' = EmptyMap
    /\ gcResult' = EmptyMap
    /\ gcTables' = {counts}
    /\ UNCHANGED <<k, counts, workerVars, ingested, storeVars, obs>>

\* the iterator yields the entry of kmer and .map(..).collect() inserts
\* (entry.key().sequence(), *entry.value()) into the HashMap.  DashMap's
\* iterator locks one shard at a time, so entries are read one after another,
\* in the order of their shards (the hash is seeded at random: any order)
GetCountsVisit(kmer) ==
    /\ gcPc = "iter"
    /\ kmer \in DOMAIN counts
    /\ kmer \notin DOMAIN gcVisited
    /\ EntryFree(0, kmer)
    /\ gcVisited' = MapPut(gcVisited, kmer, counts[kmer])
    /\ gcResult' = MapPut(gcResult, KmerSequence(kmer), counts[kmer])
    /\ UNCHANGED <<k, counts, workerVars, ingested, storeVars, gcPc, gcStart, gcTables, obs>>

\* the iterator is exhausted and get_counts returns the map.  Every entry
\* that was in the table when the call began has been yielded; an entry put in
\* during the call is missed when its shard had been passed before
GetCountsReturn ==
    /\ gcPc = "iter"
    /\ DOMAIN gcStart \subseteq DOMAIN gcVisited
    /\ gcPc' = "done"
    /\ UNCHANGED <<k, counts, workerVars, ingested, storeVars, gcStart, gcVisited, gcResult, gcTables, obs>>

\* unique_kmers: self.counts.len()
UniqueKmers == Cardinality(DOMAIN counts)

\* a slip: the number of entries instead of the sum of their values
TotalKmersLen == Cardinality(DOMAIN counts)

\* total_kmers: the sum of the values
TotalKmers == MapSum(counts)

\* kmer_size(), unique_kmers() and total_kmers() are read
Observe ==
    /\ ReaderIdle
    /\ Quiescent
    /\ obs' = [kmer_size |-> k, unique_kmers |-> UniqueKmers, total_kmers |-> TotalKmers]
    /\ UNCHANGED <<k, counts, workerVars, ingested, storeVars, gcPc, gcStart, gcVisited, gcResult, gcTables>>

\* the caller drops what the accessor returned
Forget ==
    /\ gcPc = "done" \/ obs # NoObs
    /\ gcPc' = "idle"
    /\ gcStart' = EmptyMap
    /\ gcVisited' = EmptyMap
    /\ gcResult' = EmptyMap
    /\ gcTables' = {}
    /\ obs' = NoObs
    /\ UNCHANGED <<k, counts, workerVars, ingested, storeVars>>

\* history: a write during get_counts is one more instant of the table
WriteSeen ==
    /\ gcTables' = IF gcPc = "iter" THEN gcTables \cup {counts'} ELSE gcTables
    /\ UNCHANGED <<gcPc, gcStart, gcVisited, gcResult, obs>>

\* The program counts first and reads afterwards (main.rs:229-232,
\* database.rs:52-77): the accessors are called on a quiescent counter, and no
\* count_sequence call starts before their result is dropped.
Next ==
    \/ \E w \in Workers, seq \in Pool :
          ReaderIdle /\ CountSequenceCall(w, seq) /\ UNCHANGED readerVars
    \/ \E w \in Workers : EntryLock(w) /\ UNCHANGED readerVars
    \/ \E w \in Workers : EntryWrite(w) /\ WriteSeen
    \/ Quiescent /\ GetCountsBegin
    \/ \E kmer \in DOMAIN counts : GetCountsVisit(kmer)
    \/ GetCountsReturn
    \/ Observe
    \/ Forget

Spec == Init /\ [][Next]_vars

\* The counter is Sync and every method takes &self: get_counts may as well
\* run while other threads count.
SnapshotPool == SeqsUpTo(PoolBases, MaxLen) \cup RawVectors

NextSnapshot ==
    \/ \E w \in Workers, seq \in SnapshotPool :
          gcPc # "done" /\ obs = NoObs /\ CountSequenceCall(w, seq) /\ UNCHANGED readerVars
    \/ \E w \in Workers : EntryLock(w) /\ UNCHANGED readerVars
    \/ \E w \in Workers : EntryWrite(w) /\ WriteSeen
    \/ GetCountsBegin
    \/ \E kmer \in DOMAIN counts : GetCountsVisit(kmer)
    \/ GetCountsReturn
    \/ Observe
    \/ Forget

SpecSnapshot == Init /\ [][NextSnapshot]_vars

(***************************************************************************)
(* f64 values.  A finite value is an exact fraction in lowest terms; the   *)
(* values of the model are quotients of small integers, so no two of them  *)
(* round to the same double.  0/0 is NaN and x/0 (x > 0) is +infinity.     *)
(***************************************************************************)
RECURSIVE Gcd(_, _)
Gcd(a, b) == IF b = 0 THEN a ELSE Gcd(b, a % b)

Frac(n, d) == LET g == Gcd(n, d) IN [n |-> n \div g, d |-> d \div g]

NaN == [n |-> 0, d |-> 0]
Infinity == [n |-> 1, d |-> 0]
Zero == [n |-> 0, d |-> 1]
Half == [n |-> 1, d |-> 2]
One == [n |-> 1, d |-> 1]

\* a as f64 / b as f64, a and b unsigned
FDiv(a, b) ==
    IF b = 0 THEN (IF a = 0 THEN NaN ELSE Infinity) ELSE Frac(a, b)

\* x >= y: every comparison with NaN is false
FGe(x, y) ==
    CASE x = NaN \/ y = NaN -> FALSE
      [] x = Infinity -> TRUE
      [] y = Infinity -> FALSE
      [] OTHER -> x.n * y.d >= y.n * x.d

\* x + y, x and y finite
FAdd(x, y) == Frac(x.n * y.d + y.n * x.d, x.d * y.d)

\* x / m as f64, x finite
FDivBy(x, m) == IF m = 0 THEN (IF x.n = 0 THEN NaN ELSE Infinity) ELSE Frac(x.n, x.d * m)

\* partial_cmp: "none" when one side is NaN
PartialCmp(x, y) ==
    CASE x = NaN \/ y = NaN -> "none"
      [] x = y -> "equal"
      [] FGe(x, y) -> "greater"
      [] OTHER -> "less"

CoreFrequency == [n |-> 19, d |-> 20]
RareFrequency == [n |-> 1, d |-> 10]

(***************************************************************************)
(* The profile store (db/database.rs, db/schemas.rs)                       *)
(***************************************************************************)
MaxRowId == 2
MaxSample == 1
MaxMinShared == 1

ATGATG == <<"A", "T", "G", "A", "T", "G">>

Names == {"RefA", "RefB"}
TaxonomyLevel == {"Genus", "Species", "Strain"}
\* the levels the profiles and the analyses of the model use
Levels == TaxonomyLevel \ {"Strain"}

\* the reads of the input files of a profile, after the reader's filter
ProfileInputs == {<<>>, <<ATGATG>>, <<<<"A", "T">>, <<"C", "G", "A", "T">>>>}
\* the reads of a sample, after the reader's filter
SamplePool == {<<>>, <<"A">>, <<"A", "T">>, ATGATG, <<"A", "T", "C", "G">>}
\* a --min-similarity no coverage reaches
AboveOne == [n |-> 101, d |-> 100]
\* the values of --min-similarity
Similarities == {Zero, Half, One, AboveOne}

\* a get_counts that takes the entries out of the table
TableAfterGetCountsDrained(table) == EmptyMap

\* the counter's table after get_counts, which goes over it with iter()
TableAfterGetCounts(table) == table

RECURSIVE GetCountsOf(_)
\* get_counts on a counter nobody is writing to
GetCountsOf(table) ==
    IF DOMAIN table = {} THEN EmptyMap
    ELSE LET kmer == CHOOSE x \in DOMAIN table : TRUE
             rest == [x \in (DOMAIN table) \ {kmer} |-> table[x]]
         IN  MapPut(GetCountsOf(rest), KmerSequence(kmer), table[kmer])

\* count_sequences panics when a window of size 0 is asked for
CountPanics(kk, seqs) == kk = 0 /\ seqs # <<>>

\* SELECT 1 FROM profiles WHERE name = ?
ProfileExists(name) == \E p \in profiles : p.name = name

\* the rowid SQLite gives to the next row of an INTEGER PRIMARY KEY table
NextRowId == IF profiles = {} THEN 1
             ELSE (CHOOSE i \in {p.id : p \in profiles} : \A p \in profiles : p.id <= i) + 1

\* create_profile with every count divided by the number of distinct k-mers
ProfileFrequenciesByDistinct(table) ==
    LET text == GetCountsOf(table)
    IN  [km \in DOMAIN text |-> FDiv(text[km], Cardinality(DOMAIN text))]

\* profile.frequencies of create_profile:
\* frequency = count as f64 / counter.total_kmers() as f64
ProfileFrequencies(table) ==
    LET text == GetCountsOf(table)
        total_kmers == MapSum(table)
    IN  [km \in DOMAIN text |-> FDiv(text[km], total_kmers)]

\* the rows of table kmers for a profile: one row for each entry of profile.frequencies
FrequencyRows(id, table) ==
    LET frequencies == ProfileFrequencies(table)
    IN  {[profile_id |-> id, kmer |-> km, frequency |-> frequencies[km]] : km \in DOMAIN frequencies}

\* Database::create_profile, with Database::add_profile
CreateProfile(name, level, ksize, inputs) ==
    /\ out = NoOut
    /\ IF CountPanics(ksize, inputs)
       THEN /\ out' = [op |-> "create", name |-> name, ret |-> "panic"]
            /\ UNCHANGED <<profiles, kmers>>
       ELSE IF ProfileExists(name)
       THEN /\ out' = [op |-> "create", name |-> name, ret |-> "Err"]
            /\ UNCHANGED <<profiles, kmers>>
       ELSE LET table == CountAll(ksize, EmptyMap, inputs)
                id == NextRowId
            IN  /\ id <= MaxRowId
                /\ profiles' = profiles \cup
                      {[id |-> id, name |-> name, taxonomy_level |-> level,
                        k |-> ksize, total_kmers |-> MapSum(table)]}
                /\ kmers' = kmers \cup FrequencyRows(id, table)
                /\ out' = [op |-> "create", name |-> name, ret |-> "Ok"]
    /\ UNCHANGED <<counterVars, workerVars, readerVars, tx>>

\* Database::remove_profile
RemoveProfile(name) ==
    /\ out = NoOut
    /\ IF ProfileExists(name)
       THEN LET id == (CHOOSE p \in profiles : p.name = name).id
            IN  /\ kmers' = {r \in kmers : r.profile_id # id}
                /\ profiles' = {p \in profiles : p.id # id}
                /\ out' = [op |-> "remove", name |-> name, ret |-> "true"]
       ELSE /\ out' = [op |-> "remove", name |-> name, ret |-> "false"]
            /\ UNCHANGED <<profiles, kmers>>
    /\ UNCHANGED <<counterVars, workerVars, readerVars, tx>>

(***************************************************************************)
(* ProfileAnalyzer (profile/analyzer.rs)                                   *)
(***************************************************************************)
RECURSIVE CompareRows(_, _, _)
\* the loop of compare_with_profile over the k-mer rows of a profile
CompareRows(rows, sample_kmers, acc) ==
    IF rows = {} THEN acc
    ELSE LET row == CHOOSE r \in rows : TRUE
             seen == [acc EXCEPT !.profile_unique_kmers = @ \cup {row.kmer}]
             next ==
                IF row.kmer \in DOMAIN sample_kmers
                THEN [seen EXCEPT
                        !.shared_kmers = @ + 1,
                        !.freq_sum = FAdd(@, row.frequency),
                        !.core_matches = IF FGe(row.frequency, CoreFrequency) THEN @ + 1 ELSE @,
                        !.rare_matches = IF FGe(RareFrequency, row.frequency) THEN @ + 1 ELSE @]
                ELSE seen
         IN  CompareRows(rows \ {row}, sample_kmers, next)

\* the acceptance test, as a mutation would have it
AcceptsEither(sample_coverage, shared_kmers, min_similarity, min_shared_kmers) ==
    FGe(sample_coverage, min_similarity) \/ shared_kmers >= min_shared_kmers

\* the acceptance test with an exclusive bound on the shared k-mers, as a
\* mutation would have it
AcceptsStrict(sample_coverage, shared_kmers, min_similarity, min_shared_kmers) ==
    FGe(sample_coverage, min_similarity) /\ shared_kmers > min_shared_kmers

\* the acceptance test as "not below the bound", which a coverage that is not
\* a number passes
AcceptsNotBelow(sample_coverage, shared_kmers, min_similarity, min_shared_kmers) ==
    /\ ~ (FGe(min_similarity, sample_coverage) /\ min_similarity # sample_coverage)
    /\ shared_kmers >= min_shared_kmers

\* the acceptance test at the end of compare_with_profile
Accepts(sample_coverage, shared_kmers, min_similarity, min_shared_kmers) ==
    FGe(sample_coverage, min_similarity) /\ shared_kmers >= min_shared_kmers

\* the size ratio with the two sizes exchanged, as a mutation would have it
SizeRatioInverse(sample_size, profile_size) == FDiv(profile_size, sample_size)

\* size_ratio = sample_size as f64 / profile_size as f64
SizeRatio(sample_size, profile_size) == FDiv(sample_size, profile_size)

\* the number of sample k-mers divided by the number of shared ones
SampleCoverageInverse(shared_kmers, sample_size) == FDiv(sample_size, shared_kmers)

\* sample_coverage = shared_kmers as f64 / sample_size as f64
SampleCoverage(shared_kmers, sample_size) == FDiv(shared_kmers, sample_size)

\* the values compare_with_profile computes and logs for a profile
\* ("Comparison summary"), which are the fields of its ProfileMatch
ComparisonSummary(profile_id, profile_name, sample_kmers) ==
    LET acc == CompareRows({r \in kmers : r.profile_id = profile_id}, sample_kmers,
                           [shared_kmers |-> 0, core_matches |-> 0, rare_matches |-> 0,
                            freq_sum |-> Zero, profile_unique_kmers |-> {}])
        sample_size == Cardinality(DOMAIN sample_kmers)
        profile_size == Cardinality(acc.profile_unique_kmers)
        avg_frequency == IF acc.shared_kmers > 0 THEN FDivBy(acc.freq_sum, acc.shared_kmers)
                         ELSE Zero
        size_ratio == SizeRatio(sample_size, profile_size)
        sample_coverage == SampleCoverage(acc.shared_kmers, sample_size)
    IN  [name |-> profile_name, sample_coverage |-> sample_coverage,
         shared_kmers |-> acc.shared_kmers, core_matches |-> acc.core_matches,
         rare_matches |-> acc.rare_matches, avg_frequency |-> avg_frequency,
         size_ratio |-> size_ratio]

\* compare_with_profile: <<match>> for Some(match), <<>> for None
CompareWithProfile(profile_id, profile_name, sample_kmers, min_similarity, min_shared_kmers) ==
    LET m == ComparisonSummary(profile_id, profile_name, sample_kmers)
    IN  IF Accepts(m.sample_coverage, m.shared_kmers, min_similarity, min_shared_kmers)
        THEN <<m>>
        ELSE <<>>

\* a test that lets every profile through, as a mutation would have it
KMismatchNever(profile_k, kmer_size) == FALSE

\* k as usize != counter.kmer_size()
KMismatch(profile_k, kmer_size) == profile_k # kmer_size

RECURSIVE RowsInOrder(_)
\* the rows of a query on profiles, in rowid order
RowsInOrder(rows) ==
    IF rows = {} THEN <<>>
    ELSE LET first == CHOOSE p \in rows : \A q \in rows : p.id <= q.id
         IN  <<first>> \o RowsInOrder(rows \ {first})

RECURSIVE CompareAll(_, _, _, _, _)
\* the loop of analyze_sample over the profiles at the level
CompareAll(rows, kmer_size, sample_kmers, min_similarity, min_shared_kmers) ==
    IF rows = <<>> THEN <<>>
    ELSE LET p == Head(rows)
             rest == CompareAll(Tail(rows), kmer_size, sample_kmers,
                                min_similarity, min_shared_kmers)
         IN  IF KMismatch(p.k, kmer_size) THEN rest
             ELSE CompareWithProfile(p.id, p.name, sample_kmers,
                                     min_similarity, min_shared_kmers) \o rest

RECURSIVE CompareLog(_, _, _)
\* the comparison summaries analyze_sample logs, one per profile it compares
CompareLog(rows, kmer_size, sample_kmers) ==
    IF rows = <<>> THEN <<>>
    ELSE LET p == Head(rows)
             rest == CompareLog(Tail(rows), kmer_size, sample_kmers)
         IN  IF KMismatch(p.k, kmer_size) THEN rest
             ELSE <<ComparisonSummary(p.id, p.name, sample_kmers)>> \o rest

\* a query without the WHERE clause, as a mutation would have it
ProfilesAnyLevel(level) == profiles

\* SELECT ... FROM profiles WHERE taxonomy_level = ?
ProfilesAtLevel(level) == {p \in profiles : p.taxonomy_level = level}

\* the empty case taken for a failure, as a mutation would have it
NoProfilesRetErr == "Err"

\* analyze_sample with no profile at the level: return Ok(Vec::new())
NoProfilesRet == "Ok"

\* whether sort_by's comparator panics: partial_cmp(..).unwrap() on a NaN
SortPanics(matches) ==
    \E i, j \in 1..Len(matches) :
        i # j /\ PartialCmp(matches[j].sample_coverage, matches[i].sample_coverage) = "none"

RECURSIVE InsertByCoverage(_, _)
\* m goes behind every match whose sample_coverage is not less than its own
InsertByCoverage(sorted, m) ==
    IF sorted = <<>> THEN <<m>>
    ELSE IF PartialCmp(Head(sorted).sample_coverage, m.sample_coverage) = "less"
         THEN <<m>> \o sorted
         ELSE <<Head(sorted)>> \o InsertByCoverage(Tail(sorted), m)

\* the matches left in the order of the comparison, as a mutation would have it
SortByCoverageNone(matches) == matches

RECURSIVE SortByCoverage(_)
\* matches.sort_by(|a, b| b.sample_coverage.partial_cmp(&a.sample_coverage)), a stable sort
SortByCoverage(matches) ==
    IF matches = <<>> THEN <<>>
    ELSE InsertByCoverage(SortByCoverage(SubSeq(matches, 1, Len(matches) - 1)),
                          matches[Len(matches)])

\* ProfileAnalyzer::new, then ProfileAnalyzer::analyze_sample on the sample counter
AnalyzeSample(min_similarity, min_shared_kmers, taxonomy_level) ==
    /\ out = NoOut
    /\ Quiescent
    /\ LET cfg == [min_similarity |-> min_similarity, min_shared_kmers |-> min_shared_kmers,
                   taxonomy_level |-> taxonomy_level]
           atLevel == ProfilesAtLevel(taxonomy_level)
           matches == CompareAll(RowsInOrder(atLevel), k, GetCountsOf(counts),
                                 min_similarity, min_shared_kmers)
           log == CompareLog(RowsInOrder(atLevel), k, GetCountsOf(counts))
       IN  out' = IF Cardinality(atLevel) = 0
                  THEN [op |-> "analyze", cfg |-> cfg, ret |-> NoProfilesRet,
                        matches |-> <<>>, log |-> <<>>]
                  ELSE IF SortPanics(matches)
                  THEN [op |-> "analyze", cfg |-> cfg, ret |-> "panic",
                        matches |-> <<>>, log |-> log]
                  ELSE [op |-> "analyze", cfg |-> cfg, ret |-> "Ok",
                        matches |-> SortByCoverage(matches), log |-> log]
    /\ counts' = IF Cardinality(ProfilesAtLevel(taxonomy_level)) = 0 THEN counts
                 ELSE TableAfterGetCounts(counts)
    /\ UNCHANGED <<k, ingested, workerVars, readerVars, profiles, kmers, tx>>

(***************************************************************************)
(* ProfileAnalyzer::get_detailed_analysis and get_profile_kmer_count       *)
(***************************************************************************)
HighFrequency == [n |-> 3, d |-> 4]
MidFrequency == [n |-> 1, d |-> 4]

RECURSIVE SetToSeq(_)
\* the members of a set in the order an iteration yields them; the order of
\* a query without ORDER BY and of a HashMap is one of the possible orders
SetToSeq(S) ==
    IF S = {} THEN <<>>
    ELSE LET x == CHOOSE y \in S : TRUE IN <<x>> \o SetToSeq(S \ {x})

\* a test that finds no k-mer, as a mutation would have it
HasKmerNever(shared_kmers, kmer) == FALSE

\* DetailedAnalysis::has_kmer
HasKmer(shared_kmers, kmer) ==
    \E i \in 1..Len(shared_kmers) : shared_kmers[i].sequence = kmer

\* DetailedAnalysis::new
NewDetailedAnalysis ==
    [shared_kmers |-> <<>>, unique_to_reference |-> <<>>, unique_to_sample |-> <<>>]

RECURSIVE DetailRows(_, _, _, _)
\* the loop of get_detailed_analysis over the k-mer rows of the profile:
\* add_shared_kmer or add_reference_unique_kmer
DetailRows(rows, sample_kmers, total_sample_kmers, analysis) ==
    IF rows = <<>> THEN analysis
    ELSE LET row == Head(rows)
             next ==
                IF row.kmer \in DOMAIN sample_kmers
                THEN [analysis EXCEPT !.shared_kmers = Append(@,
                        [sequence |-> row.kmer,
                         sample_frequency |-> FDiv(sample_kmers[row.kmer], total_sample_kmers),
                         reference_frequency |-> row.frequency])]
                ELSE [analysis EXCEPT !.unique_to_reference = Append(@,
                        [sequence |-> row.kmer, frequency |-> row.frequency])]
         IN  DetailRows(Tail(rows), sample_kmers, total_sample_kmers, next)

RECURSIVE DetailSample(_, _, _, _)
\* the loop of get_detailed_analysis over the sample's k-mers: add_sample_unique_kmer
DetailSample(keys, sample_kmers, total_sample_kmers, analysis) ==
    IF keys = <<>> THEN analysis
    ELSE LET kmer == Head(keys)
             next ==
                IF ~HasKmer(analysis.shared_kmers, kmer)
                THEN [analysis EXCEPT !.unique_to_sample = Append(@,
                        [sequence |-> kmer,
                         frequency |-> FDiv(sample_kmers[kmer], total_sample_kmers)])]
                ELSE analysis
         IN  DetailSample(Tail(keys), sample_kmers, total_sample_kmers, next)

\* the reference frequencies of the shared k-mers, by position
ReferenceFrequencies(shared_kmers) ==
    [i \in 1..Len(shared_kmers) |-> shared_kmers[i].reference_frequency]

\* the number of the frequencies that are at least lo and, when capped, less than hi
CountBetween(freqs, lo, capped, hi) ==
    Cardinality({i \in 1..Len(freqs) :
                    FGe(freqs[i], lo) /\ (capped => ~FGe(freqs[i], hi))})

\* the number of the frequencies that are less than hi
CountAtMostStrict(freqs, hi) == Cardinality({i \in 1..Len(freqs) : ~FGe(freqs[i], hi)})

\* the number of the frequencies that are at most hi
CountAtMost(freqs, hi) == Cardinality({i \in 1..Len(freqs) : FGe(hi, freqs[i])})

RECURSIVE SumFrequency(_)
\* shared_kmers.iter().map(|sk| sk.reference_frequency).sum()
SumFrequency(shared_kmers) ==
    IF shared_kmers = <<>> THEN Zero
    ELSE FAdd(Head(shared_kmers).reference_frequency, SumFrequency(Tail(shared_kmers)))

\* the size ratio of calculate_statistics: sample-only over reference-only
\* k-mers, left at 0.0 when there is no reference-only k-mer
DetailSizeRatio(total_unique_sample, total_unique_reference) ==
    IF total_unique_reference > 0
    THEN FDiv(total_unique_sample, total_unique_reference)
    ELSE Zero

\* DetailedAnalysis::calculate_statistics
CalculateStatistics(analysis) ==
    LET shared == analysis.shared_kmers
        freqs == ReferenceFrequencies(shared)
    IN  [total_shared |-> Len(shared),
         total_unique_reference |-> Len(analysis.unique_to_reference),
         total_unique_sample |-> Len(analysis.unique_to_sample),
         core_matches |-> CountBetween(freqs, CoreFrequency, FALSE, One),
         rare_matches |-> CountAtMost(freqs, RareFrequency),
         avg_frequency |-> IF shared # <<>> THEN FDivBy(SumFrequency(shared), Len(shared))
                           ELSE Zero,
         size_ratio |-> DetailSizeRatio(Len(analysis.unique_to_sample),
                                        Len(analysis.unique_to_reference)),
         frequency_distribution |->
            [high_freq |-> CountBetween(freqs, HighFrequency, FALSE, One),
             mid_freq |-> CountBetween(freqs, MidFrequency, TRUE, HighFrequency),
             low_freq |-> CountBetween(freqs, Zero, TRUE, MidFrequency)],
         average_frequency_difference |-> Zero,
         marker_kmer_matches |-> 0]

\* the result for a name that is not stored taken for a failure, as a
\* mutation would have it
MissingProfileDetailErr == "Err"

\* get_detailed_analysis for a name that is not stored: return Ok(None)
MissingProfileDetail == "None"

\* ProfileAnalyzer::get_detailed_analysis on the sample counter
GetDetailedAnalysis(profile_name) ==
    /\ out = NoOut
    /\ Quiescent
    /\ IF ~ProfileExists(profile_name)
       THEN out' = [op |-> "detail", name |-> profile_name, ret |-> MissingProfileDetail]
       ELSE LET profile_id == (CHOOSE p \in profiles : p.name = profile_name).id
                sample_kmers == GetCountsOf(counts)
                total_sample_kmers == TotalKmers
                byRows == DetailRows(SetToSeq({r \in kmers : r.profile_id = profile_id}),
                                     sample_kmers, total_sample_kmers, NewDetailedAnalysis)
                analysis == DetailSample(SetToSeq(DOMAIN sample_kmers), sample_kmers,
                                         total_sample_kmers, byRows)
            IN  out' = [op |-> "detail", name |-> profile_name, ret |-> "Some",
                        shared_kmers |-> analysis.shared_kmers,
                        unique_to_reference |-> analysis.unique_to_reference,
                        unique_to_sample |-> analysis.unique_to_sample,
                        statistics |-> CalculateStatistics(analysis)]
    /\ counts' = IF ~ProfileExists(profile_name) THEN counts ELSE TableAfterGetCounts(counts)
    /\ UNCHANGED <<k, ingested, workerVars, readerVars, profiles, kmers, tx>>

\* the number of k-mer rows in place of the header value, as a mutation
\* would have it
StoredKmerRows(p) == Cardinality({r \in kmers : r.profile_id = p.id})

\* SELECT total_kmers FROM profiles WHERE name = ?
StoredTotalKmers(p) == p.total_kmers

\* the count of a name that is not stored taken for zero, as a mutation
\* would have it
MissingProfileCountOk == "Ok"

\* query_row without a row: Err(QueryReturnedNoRows), passed on by ?
MissingProfileCount == "Err"

\* ProfileAnalyzer::get_profile_kmer_count
GetProfileKmerCount(name) ==
    /\ out = NoOut
    /\ out' = IF ProfileExists(name)
              THEN [op |-> "kmer_count", name |-> name, ret |-> "Ok",
                    value |-> StoredTotalKmers(CHOOSE p \in profiles : p.name = name)]
              ELSE [op |-> "kmer_count", name |-> name, ret |-> MissingProfileCount,
                    value |-> 0]
    /\ UNCHANGED <<counterVars, workerVars, readerVars, profiles, kmers, tx>>

\* handle_analyze_command: the reads of the sample go to the sample counter
CountSample(seq) ==
    /\ out = NoOut
    /\ Quiescent
    /\ MapSum(ingested) < MaxSample
    /\ counts' = CountSequence(k, counts, seq)
    /\ ingested' = MapPut(ingested, seq, MapGet(ingested, seq) + 1)
    /\ UNCHANGED <<k, workerVars, readerVars, storeVars>>

\* the result of a command is dropped before the next command
OutDrop ==
    /\ out # NoOut
    /\ out' = NoOut
    /\ UNCHANGED <<counterVars, workerVars, readerVars, profiles, kmers, tx>>

\* the sample counter of handle_analyze_command: --kmer-size is positive here
InitAnalyze == k \in 1..MaxK /\ InitFresh

NextAnalyze ==
    \/ \E seq \in SamplePool : CountSample(seq)
    \/ \E name \in Names, level \in Levels, ksize \in {k, k - 1}, inputs \in ProfileInputs :
          CreateProfile(name, level, ksize, inputs)
    \/ \E name \in Names : RemoveProfile(name)
    \/ \E min_similarity \in Similarities, min_shared_kmers \in 0..MaxMinShared,
          taxonomy_level \in Levels :
          AnalyzeSample(min_similarity, min_shared_kmers, taxonomy_level)
    \/ \E name \in Names : GetDetailedAnalysis(name)
    \/ \E name \in Names : GetProfileKmerCount(name)
    \/ OutDrop

SpecAnalyze == InitAnalyze /\ [][NextAnalyze]_vars

(***************************************************************************)
(* The analysis of reads over A and T with --kmer-size 4: the sample       *)
(* AAAATTTT against a profile built from the reads AAAA and TTTT.          *)
(***************************************************************************)
AAAA == <<"A", "A", "A", "A">>
TTTT == <<"T", "T", "T", "T">>
AAAATTTT == AAAA \o TTTT
\* a read with ten windows of length 4, nine of them AAAA
ManyAOneT == AAAA \o AAAA \o AAAA \o <<"T">>

\* the reads of the input files of a profile
ScenarioInputs == {<<>>, <<AAAA>>, <<AAAA, TTTT>>, <<AAAATTTT>>, <<ManyAOneT>>}
\* the reads of a sample
ScenarioSamples == {AAAATTTT, AAAA, <<"A", "T">>}
\* the values of --min-shared-kmers
ScenarioMinShared == {0, 1, 2, 3}

InitScenario == k = 4 /\ InitFresh

NextScenario ==
    \/ \E seq \in ScenarioSamples : CountSample(seq)
    \/ \E name \in Names, level \in Levels, ksize \in {k, k - 1}, inputs \in ScenarioInputs :
          CreateProfile(name, level, ksize, inputs)
    \/ \E name \in Names : RemoveProfile(name)
    \/ \E min_similarity \in Similarities, min_shared_kmers \in ScenarioMinShared,
          taxonomy_level \in Levels :
          AnalyzeSample(min_similarity, min_shared_kmers, taxonomy_level)
    \/ \E name \in Names : GetDetailedAnalysis(name)
    \/ \E name \in Names : GetProfileKmerCount(name)
    \/ OutDrop

SpecScenario == InitScenario /\ [][NextScenario]_vars

(***************************************************************************)
(* The claims about the counter.                                           *)
(***************************************************************************)
RECURSIVE BagSeqs(_)
\* the members of a bag of sequences, one after another
BagSeqs(bag) ==
    IF DOMAIN bag = {} THEN <<>>
    ELSE LET s == CHOOSE x \in DOMAIN bag : TRUE
         IN  <<s>> \o BagSeqs(IF bag[s] = 1 THEN [x \in (DOMAIN bag) \ {s} |-> bag[x]]
                               ELSE [bag EXCEPT ![s] = bag[s] - 1])

\* the sequences given to count_sequence so far
IngestedSeqs == BagSeqs(ingested)

\* the start positions at which x occurs in seq as a contiguous window
Occurrences(x, seq) ==
    Cardinality({i \in 1..(Len(seq) - Len(x) + 1) : SubSeq(seq, i, i + Len(x) - 1) = x})

RECURSIVE OccurrencesIn(_, _)
OccurrencesIn(x, seqs) ==
    IF seqs = <<>> THEN 0
    ELSE Occurrences(x, Head(seqs)) + OccurrencesIn(x, Tail(seqs))

\* every contiguous piece of length n of the ingested sequences
Pieces(n) ==
    UNION {{SubSeq(s, i, i + n - 1) : i \in 1..(Len(s) - n + 1)} : s \in DOMAIN ingested}

RECURSIVE WindowTotal(_)
\* the sum over seqs of max(0, len - k + 1)
WindowTotal(seqs) ==
    IF seqs = <<>> THEN 0
    ELSE (IF Len(Head(seqs)) - k + 1 > 0 THEN Len(Head(seqs)) - k + 1 ELSE 0)
         + WindowTotal(Tail(seqs))

\* C1: whenever no counting call is in progress, the table the workers have
\* built, under any interleaving of their look-ups and writes, is the table
\* that count_sequence gives when it is run on the same sequences one after
\* another by one thread: no increment is lost.
C1_ParallelEqualsSequential ==
    Quiescent => counts = CountAll(k, EmptyMap, IngestedSeqs)

\* C1's case: two workers have counted, at the same time (the second worker
\* takes a call only while the first is busy), sequences that share a k-mer
C1_Witness ==
    /\ Quiescent
    /\ wret[1] = "Ok" /\ wret[2] = "Ok"
    /\ Len(IngestedSeqs) = 2
    /\ \E x \in DOMAIN counts :
          counts[x] >= 2 /\ \A i \in 1..2 : Occurrences(x, IngestedSeqs[i]) = 1

\* C2: after the calls made have returned, the count stored for a string of
\* length k is the number of start positions at which it occurs in the
\* ingested sequences (a string that occurs nowhere has no entry); "ATGATG"
\* with k = 3 gives {ATG: 2, TGA: 1, GAT: 1}; a sequence of length k gives one
\* window.
C2_CountIsOccurrences ==
    Quiescent =>
        /\ \A x \in (DOMAIN counts) \cup Pieces(k) :
              MapGet(counts, x) = OccurrencesIn(x, IngestedSeqs)
        /\ (k = 3 /\ IngestedSeqs = <<ATGATG>>) =>
              counts = (<<"A", "T", "G">> :> 2) @@ (<<"T", "G", "A">> :> 1)
                       @@ (<<"G", "A", "T">> :> 1)
        /\ (k >= 1 /\ Len(IngestedSeqs) = 1 /\ Len(IngestedSeqs[1]) = k) =>
              counts = (IngestedSeqs[1] :> 1)

\* C2's case: "ATGATG" has been counted with k = 3
C2_Witness ==
    /\ Quiescent
    /\ k = 3
    /\ IngestedSeqs = <<ATGATG>>
    /\ MapGet(counts, <<"A", "T", "G">>) = 2

\* C3: a count_sequence call on a sequence shorter than k returns Ok at once
\* and leaves the table, unique_kmers() and total_kmers() as they were.
C3_ShortIsNoOp ==
    [][\A w \in Workers, seq \in DOMAIN ingested' :
          (/\ NextWorker(w)
           /\ MapGet(ingested', seq) = MapGet(ingested, seq) + 1
           /\ Len(seq) < k)
          => (/\ counts' = counts
              /\ wret'[w] = "Ok"
              /\ wpc'[w] = "idle"
              /\ UniqueKmers' = UniqueKmers
              /\ TotalKmers' = TotalKmers)]_vars

\* C3's case: "AT" and the empty sequence have been given to a counter with
\* k = 3
C3_Witness ==
    /\ k = 3
    /\ DOMAIN ingested = {<<"A", "T">>, <<>>}
    /\ wret[1] = "Ok"
    /\ counts = EmptyMap

\* C4: counting has no failure mode: every count_sequence call on a counter
\* obtained from new(k) completes and returns success.
C4_CountingNeverFails ==
    \A w \in Workers : wpc[w] # "panicked" /\ wret[w] \in {"none", "Ok"}

\* C5: with no counting call in progress, total_kmers() is the sum over the
\* ingested sequences of max(0, len - k + 1), unique_kmers() is the number of
\* distinct windows seen, and unique_kmers() <= total_kmers(); the values the
\* accessors returned are these.
C5_Totals ==
    /\ Quiescent =>
          /\ TotalKmers = WindowTotal(IngestedSeqs)
          /\ UniqueKmers = Cardinality(Pieces(k))
          /\ UniqueKmers <= TotalKmers
    /\ (Quiescent /\ obs # NoObs) =>
          /\ obs.kmer_size = k
          /\ obs.total_kmers = WindowTotal(IngestedSeqs)
          /\ obs.unique_kmers = Cardinality(Pieces(k))

\* C5's case: a window has been seen twice, and the accessors have been read
C5_Witness ==
    /\ Quiescent
    /\ Len(IngestedSeqs) = 2
    /\ obs # NoObs
    /\ obs.unique_kmers < obs.total_kmers
    /\ obs.unique_kmers >= 2

\* C6: no step removes a key or lowers a count; the table changes only in a
\* worker's write inside count_sequence; a step of an accessor (get_counts,
\* kmer_size, unique_kmers, total_kmers) leaves the table as it is.
C6_NeverShrinks ==
    [][/\ \A x \in DOMAIN counts : x \in DOMAIN counts' /\ counts'[x] >= counts[x]
       /\ (counts' # counts) =>
             \E w \in Workers : wpc[w] = "entry" /\ wpc'[w] # "entry"
       /\ (gcPc' # gcPc \/ gcVisited' # gcVisited \/ gcResult' # gcResult \/ obs' # obs)
             => counts' = counts]_vars

\* C6's case: a table of two entries, one counted twice, has been read by
\* get_counts
C6_Witness ==
    /\ gcPc = "done"
    /\ Cardinality(DOMAIN counts) >= 2
    /\ \E x \in DOMAIN counts : counts[x] >= 2
    /\ DOMAIN gcVisited = DOMAIN counts

\* C7: every key of the table has length k and every stored count is at
\* least 1; when the input is ACGT, every key of the map get_counts returned
\* has length k.
C7_KeysHaveLengthK ==
    /\ \A x \in DOMAIN counts : Len(x) = k /\ counts[x] >= 1
    /\ (gcPc = "done" /\ \A s \in DOMAIN ingested : IsACGT(s)) =>
          \A t \in DOMAIN gcResult : StrLen(t) = k /\ gcResult[t] >= 1

\* C7's case: get_counts has returned the windows of "ATGATG" for k = 3
C7_Witness ==
    /\ gcPc = "done"
    /\ k = 3
    /\ DOMAIN gcResult = {<<"A", "T", "G">>, <<"T", "G", "A">>, <<"G", "A", "T">>}

AllACGT == \A s \in DOMAIN ingested : IsACGT(s)

\* the map get_counts returns for a table it reads at one instant, when no
\* two keys have the same text
IsTextOf(result, table) ==
    /\ DOMAIN result = {KmerSequence(x) : x \in DOMAIN table}
    /\ \A x \in DOMAIN table : result[KmerSequence(x)] = table[x]
    /\ Cardinality(DOMAIN result) = Cardinality(DOMAIN table)

\* C8 (as stated): for ACGT input the map get_counts returned is the whole
\* table as it stood at one single instant of the call, also when writes of
\* other workers are interleaved with it.
C8_PointInTimeSnapshot ==
    (gcPc = "done" /\ AllACGT) => \E t \in gcTables : IsTextOf(gcResult, t)

\* C8 (amended): for ACGT input, when no write was interleaved with the call
\* the returned map is the whole table, with one entry per k-mer and its count;
\* when writes were interleaved, distinct k-mers still have distinct keys,
\* every k-mer that was in the table when the call began is returned, and
\* every returned count is one its k-mer had at some instant of the call.
C8_SnapshotWhenQuiescent ==
    (gcPc = "done" /\ AllACGT) =>
        /\ (gcTables = {gcStart}) => IsTextOf(gcResult, gcStart)
        /\ Cardinality(DOMAIN gcResult) = Cardinality(DOMAIN gcVisited)
        /\ \A x \in DOMAIN gcStart : KmerSequence(x) \in DOMAIN gcResult
        /\ \A x \in DOMAIN gcVisited :
              /\ KmerSequence(x) \in DOMAIN gcResult
              /\ \E t \in gcTables : MapGet(t, x) = gcResult[KmerSequence(x)]
        /\ \A s \in DOMAIN gcResult : \E x \in DOMAIN gcVisited : KmerSequence(x) = s

\* C8's case: writes were interleaved with get_counts and the map it returned
\* is the table of no instant of the call
C8_Witness ==
    /\ gcPc = "done"
    /\ AllACGT
    /\ Cardinality(gcTables) >= 2
    /\ gcResult # EmptyMap
    /\ ~ \E t \in gcTables : IsTextOf(gcResult, t)

(***************************************************************************)
(* The claims about the analyzer.                                          *)
(***************************************************************************)
\* the profiles analyze_sample compares the sample with: same level, same k
Candidates(level) == {p \in profiles : p.taxonomy_level = level /\ p.k = k}

\* whether the result of the last analysis lists the profile
Accepted(p) == \E i \in 1..Len(out.matches) : out.matches[i].name = p.name

\* the match the last analysis lists for the profile
MatchOf(p) == out.matches[CHOOSE i \in 1..Len(out.matches) : out.matches[i].name = p.name]

\* the number of the stored k-mers of the profile that are windows of the sample
SharedWith(p) == Cardinality({r \in kmers : r.profile_id = p.id /\ r.kmer \in Pieces(k)})

\* the number of distinct k-mers of the sample
SampleDistinct == Cardinality(Pieces(k))

\* shared / distinct >= min_similarity; a quotient 0/0 is not a number and
\* meets no bound
CoverageMeets(shared, distinct, min_similarity) ==
    distinct > 0 /\ shared * min_similarity.d >= min_similarity.n * distinct

\* C9: analyze_sample accepts a candidate profile as a match if and only if
\* sample_coverage >= min_similarity and shared_kmers >= min_shared_kmers,
\* where shared_kmers is the number of the profile's stored k-mers that occur
\* in the sample and sample_coverage is shared_kmers divided by the number of
\* distinct k-mers of the sample; the match reports these two values.
C9_AcceptIffThresholds ==
    (out.op = "analyze" /\ out.ret = "Ok") =>
        \A p \in Candidates(out.cfg.taxonomy_level) :
            /\ Accepted(p) <=>
                  /\ CoverageMeets(SharedWith(p), SampleDistinct, out.cfg.min_similarity)
                  /\ SharedWith(p) >= out.cfg.min_shared_kmers
            /\ Accepted(p) =>
                  /\ MatchOf(p).shared_kmers = SharedWith(p)
                  /\ MatchOf(p).sample_coverage = FDiv(SharedWith(p), SampleDistinct)

\* an analysis that accepts one candidate and rejects another one for its
\* coverage alone
C9_Witness ==
    /\ out.op = "analyze" /\ out.ret = "Ok"
    /\ out.cfg.min_similarity = Half
    /\ \E p, q \in Candidates(out.cfg.taxonomy_level) :
          /\ Accepted(p) /\ SharedWith(p) >= 2
          /\ ~Accepted(q)
          /\ SharedWith(q) >= 1 /\ SharedWith(q) >= out.cfg.min_shared_kmers

\* C10: with min_similarity = 0 and min_shared_kmers = 0, analyze_sample
\* returns every stored profile of the configured level whose k is the
\* counter's k, for every sample counter, one with no k-mers included.
C10_ZeroThresholdsReturnAll ==
    (/\ out.op = "analyze" /\ out.ret = "Ok"
     /\ out.cfg.min_similarity = Zero /\ out.cfg.min_shared_kmers = 0) =>
        \A p \in Candidates(out.cfg.taxonomy_level) : Accepted(p)

\* the last command was an analysis with both thresholds at zero
ZeroThresholds ==
    out.op = "analyze" /\ out.cfg.min_similarity = Zero /\ out.cfg.min_shared_kmers = 0

\* whether the last analysis compared the sample with the profile
Compared(p) == \E i \in 1..Len(out.log) : out.log[i].name = p.name

\* C11: a stored profile whose k differs from the counter's kmer_size is never
\* in the result of analyze_sample, whatever the thresholds; the mismatch
\* does not make analyze_sample fail, and every profile of the level with the
\* counter's k is still compared.
C11_KMismatchSkipped ==
    out.op = "analyze" =>
        /\ out.ret = "Ok"
        /\ \A p \in profiles : p.k # k => ~Accepted(p) /\ ~Compared(p)
        /\ \A p \in Candidates(out.cfg.taxonomy_level) : Compared(p)

\* an analysis with zero thresholds that skips a profile of another k and
\* accepts a profile stored after it
C11_Witness ==
    /\ ZeroThresholds /\ out.ret = "Ok"
    /\ counts # EmptyMap
    /\ \E p, q \in profiles :
          /\ p.taxonomy_level = out.cfg.taxonomy_level
          /\ q.taxonomy_level = out.cfg.taxonomy_level
          /\ p.k # k /\ q.k = k /\ p.id < q.id
          /\ ~Accepted(p) /\ Accepted(q)

\* C12: every match of analyze_sample names a stored profile of the
\* configured taxonomy level, no profile of another level is returned, and
\* no profile is returned twice.
C12_OnlyConfiguredLevel ==
    out.op = "analyze" =>
        /\ \A i \in 1..Len(out.matches) :
              \E p \in profiles : /\ p.name = out.matches[i].name
                                  /\ p.taxonomy_level = out.cfg.taxonomy_level
        /\ \A p \in profiles : p.taxonomy_level # out.cfg.taxonomy_level => ~Accepted(p)
        /\ \A i, j \in 1..Len(out.matches) :
              i # j => out.matches[i].name # out.matches[j].name

\* an analysis with zero thresholds over two profiles of the counter's k at
\* two levels, which returns the one of the configured level only
C12_Witness ==
    /\ ZeroThresholds /\ out.ret = "Ok"
    /\ counts # EmptyMap
    /\ Len(out.matches) = 1
    /\ \E p, q \in profiles :
          /\ p.k = k /\ q.k = k
          /\ p.taxonomy_level = out.cfg.taxonomy_level
          /\ q.taxonomy_level # out.cfg.taxonomy_level
          /\ Accepted(p)

\* C13: with no profile stored at the configured level analyze_sample returns
\* an empty list and no error, whatever the sample counter holds.
C13_NoProfilesEmptyOk ==
    (out.op = "analyze" /\ ~ \E p \in profiles : p.taxonomy_level = out.cfg.taxonomy_level) =>
        out.ret = "Ok" /\ out.matches = <<>>

\* an analysis of a sample with k-mers at a level without profiles, while a
\* profile of the counter's k is stored at another level
C13_Witness ==
    /\ ZeroThresholds /\ out.ret = "Ok" /\ out.matches = <<>>
    /\ counts # EmptyMap
    /\ \E p \in profiles : p.k = k
    /\ \A p \in profiles : p.taxonomy_level # out.cfg.taxonomy_level

\* the stored profile with the name
ProfileNamed(name) == CHOOSE p \in profiles : p.name = name

\* the stored k-mers of the profile that are k-mers of the sample
SharedSet(p) == {r.kmer : r \in {x \in kmers : x.profile_id = p.id /\ x.kmer \in Pieces(k)}}

\* uniqueness_score: the fraction of the shared k-mers that no other stored
\* profile holds, 0 without shared k-mers
UniquenessScore(p) ==
    LET owned == {x \in SharedSet(p) : ~ \E r \in kmers : r.profile_id # p.id /\ r.kmer = x}
    IN  IF SharedSet(p) = {} THEN Zero
        ELSE Frac(Cardinality(owned), Cardinality(SharedSet(p)))

Abs(x) == IF x < 0 THEN 0 - x ELSE x

\* a signed fraction n/d with d > 0; d = 0 stands for minus infinity
MinusInfinity == [n |-> 0 - 1, d |-> 0]

\* the size-symmetry term 1 - |1 - size_ratio|
SizeSymmetry(size_ratio) ==
    IF size_ratio.d = 0 THEN MinusInfinity
    ELSE [n |-> size_ratio.d - Abs(size_ratio.d - size_ratio.n), d |-> size_ratio.d]

SAdd(x, y) ==
    IF x.d = 0 \/ y.d = 0 THEN MinusInfinity
    ELSE [n |-> x.n * y.d + y.n * x.d, d |-> x.d * y.d]

SGe(x, y) ==
    IF y.d = 0 THEN TRUE
    ELSE IF x.d = 0 THEN FALSE
    ELSE x.n * y.d >= y.n * x.d

\* confidence_score = (sample_coverage + uniqueness_score + (1 - |1 - size_ratio|)) / 3
ConfidenceScore(m) ==
    LET sum == SAdd(SAdd(m.sample_coverage, UniquenessScore(ProfileNamed(m.name))),
                    SizeSymmetry(m.size_ratio))
    IN  IF sum.d = 0 THEN MinusInfinity ELSE [n |-> sum.n, d |-> 3 * sum.d]

\* C14, as claimed: the list returned by analyze_sample is ordered by
\* confidence_score descending: of two adjacent matches the earlier one has a
\* confidence_score greater than or equal to the later one's.
C14_SortedByConfidence ==
    (out.op = "analyze" /\ out.ret = "Ok") =>
        \A i \in 1..(Len(out.matches) - 1) :
            SGe(ConfidenceScore(out.matches[i]), ConfidenceScore(out.matches[i + 1]))

\* C14, amended: the list returned by analyze_sample is ordered by
\* sample_coverage descending: of two adjacent matches the earlier one has a
\* sample_coverage greater than or equal to the later one's, and matches of
\* equal sample_coverage keep the order of their rows in the store.
C14_SortedByCoverage ==
    (out.op = "analyze" /\ out.ret = "Ok") =>
        \A i \in 1..(Len(out.matches) - 1) :
            LET a == out.matches[i]
                b == out.matches[i + 1]
            IN  /\ FGe(a.sample_coverage, b.sample_coverage)
                /\ a.sample_coverage = b.sample_coverage =>
                      ProfileNamed(a.name).id < ProfileNamed(b.name).id

\* an analysis whose result lists the profile stored later first, for its
\* greater sample_coverage
C14_Witness ==
    /\ out.op = "analyze" /\ out.ret = "Ok"
    /\ Len(out.matches) = 2
    /\ ProfileNamed(out.matches[1].name).id > ProfileNamed(out.matches[2].name).id
    /\ out.matches[1].sample_coverage # out.matches[2].sample_coverage
    /\ FGe(out.matches[1].sample_coverage, out.matches[2].sample_coverage)

\* the number of k-mers stored for the profile
StoredCount(p) == Cardinality({r \in kmers : r.profile_id = p.id})

\* whether a value is a number between 0 and 1
InUnit(x) == x.d > 0 /\ 0 <= x.n /\ x.n <= x.d

ScenarioState ==
    /\ out.op = "analyze" /\ out.ret = "Ok"
    /\ k = 4
    /\ DOMAIN ingested = {AAAATTTT} /\ ingested[AAAATTTT] = 1
    /\ \E p \in profiles :
          /\ p.name = "RefA" /\ p.k = 4 /\ p.total_kmers = 2
          /\ p.taxonomy_level = out.cfg.taxonomy_level
          /\ {[kmer |-> r.kmer, frequency |-> r.frequency] :
                 r \in {x \in kmers : x.profile_id = p.id}}
               = {[kmer |-> AAAA, frequency |-> Half], [kmer |-> TTTT, frequency |-> Half]}

\* the summary the last analysis logged for RefA
RefASummary == out.log[CHOOSE i \in 1..Len(out.log) : out.log[i].name = "RefA"]

\* C16, as claimed: in the scenario the comparison finds zero shared k-mers,
\* so RefA is not returned as a match for any min_shared_kmers >= 1.
C16_ScenarioNoShared ==
    ScenarioState =>
        /\ RefASummary.shared_kmers = 0
        /\ out.cfg.min_shared_kmers >= 1 => ~Accepted(ProfileNamed("RefA"))

\* C16, amended: in the scenario the sample's k-mers are AAAA, AAAT, AATT,
\* ATTT and TTTT, the comparison finds the two shared k-mers AAAA and TTTT,
\* sample_coverage is 2/5, and RefA is returned as a match exactly when
\* min_shared_kmers <= 2 and min_similarity <= 0.4.
C16_ScenarioTwoShared ==
    ScenarioState =>
        /\ DOMAIN counts = {AAAA, <<"A", "A", "A", "T">>, <<"A", "A", "T", "T">>,
                            <<"A", "T", "T", "T">>, TTTT}
        /\ RefASummary.shared_kmers = 2
        /\ RefASummary.sample_coverage = [n |-> 2, d |-> 5]
        /\ Accepted(ProfileNamed("RefA")) <=>
              /\ out.cfg.min_shared_kmers <= 2
              /\ 5 * out.cfg.min_similarity.n <= 2 * out.cfg.min_similarity.d

\* the scenario analysed with min_shared_kmers = 2, returning RefA with its
\* two shared k-mers
C16_Witness ==
    /\ ScenarioState
    /\ out.cfg.min_shared_kmers = 2
    /\ Len(out.matches) >= 1
    /\ \E i \in 1..Len(out.matches) :
          out.matches[i].name = "RefA" /\ out.matches[i].shared_kmers = 2

(***************************************************************************)
(* The claims about the detailed analysis.                                 *)
(***************************************************************************)
\* the sequences of a list of k-mers
SequencesOf(list) == {list[i].sequence : i \in 1..Len(list)}

\* no sequence occurs twice in the list
NoDuplicates(list) ==
    \A i, j \in 1..Len(list) : i # j => list[i].sequence # list[j].sequence

\* the k-mers stored for the profile with the name
StoredKmers(name) == {r.kmer : r \in {x \in kmers : x.profile_id = ProfileNamed(name).id}}

\* the last command was a detailed analysis of a stored profile
DetailSome == out.op = "detail" /\ out.ret = "Some"

\* C17: get_detailed_analysis for a stored profile splits the union of the
\* sample's distinct k-mers and the profile's stored k-mers into three
\* pairwise disjoint lists without duplicates: shared (in both),
\* unique_to_reference (profile only) and unique_to_sample (sample only); so
\* total_shared + total_unique_reference is the number of k-mers stored for
\* the profile and total_shared + total_unique_sample is unique_kmers().
C17_DetailPartition ==
    DetailSome =>
        /\ SequencesOf(out.shared_kmers) = StoredKmers(out.name) \cap Pieces(k)
        /\ SequencesOf(out.unique_to_reference) = StoredKmers(out.name) \ Pieces(k)
        /\ SequencesOf(out.unique_to_sample) = Pieces(k) \ StoredKmers(out.name)
        /\ NoDuplicates(out.shared_kmers)
        /\ NoDuplicates(out.unique_to_reference)
        /\ NoDuplicates(out.unique_to_sample)
        /\ out.statistics.total_shared + out.statistics.total_unique_reference
              = Cardinality(StoredKmers(out.name))
        /\ out.statistics.total_shared + out.statistics.total_unique_sample = UniqueKmers
        /\ out.statistics.total_shared = Len(out.shared_kmers)
        /\ out.statistics.total_unique_reference = Len(out.unique_to_reference)
        /\ out.statistics.total_unique_sample = Len(out.unique_to_sample)

\* a detailed analysis with k-mers in each of the three lists
C17_Witness ==
    /\ DetailSome
    /\ out.statistics.total_shared >= 1
    /\ out.statistics.total_unique_reference >= 1
    /\ out.statistics.total_unique_sample >= 1

\* C18: the size_ratio statistic of get_detailed_analysis is sample_size /
\* profile_unique_kmer_count, the number of distinct sample k-mers over the
\* number of the profile's k-mers, which is the size_ratio analyze_sample
\* computes for the same counter and profile.  The pairs taken here are
\* those in which both the sample and the profile hold a k-mer, so that the
\* quotient is a finite number.
C18_DetailSizeRatio ==
    (DetailSome /\ SampleDistinct > 0 /\ StoredCount(ProfileNamed(out.name)) > 0) =>
        /\ out.statistics.size_ratio
              = FDiv(SampleDistinct, StoredCount(ProfileNamed(out.name)))
        /\ out.statistics.size_ratio
              = ComparisonSummary(ProfileNamed(out.name).id, out.name,
                                  GetCountsOf(counts)).size_ratio

\* C19: get_detailed_analysis returns None, and no error, when no profile
\* with the given name is stored, for every counter; for a stored name it
\* returns an analysis.
C19_DetailNoneWhenMissing ==
    out.op = "detail" =>
        IF \E p \in profiles : p.name = out.name
        THEN out.ret = "Some"
        ELSE out.ret = "None"

\* a detailed analysis of a sample with k-mers for a name that is not
\* stored, while another profile is
C19_Witness ==
    /\ out.op = "detail" /\ out.ret = "None"
    /\ counts # EmptyMap
    /\ profiles # {}
    /\ \A p \in profiles : p.name # out.name

\* C20: get_profile_kmer_count(name) returns the total_kmers value stored in
\* the header of the profile with that name, and an error when no profile
\* with that name is stored.
C20_KmerCountIsHeaderTotal ==
    out.op = "kmer_count" =>
        IF \E p \in profiles : p.name = out.name
        THEN out.ret = "Ok" /\ out.value = ProfileNamed(out.name).total_kmers
        ELSE out.ret = "Err"

\* the count of a profile in which a k-mer occurs twice, so that total_kmers
\* is not the number of its k-mer rows
C20_Witness ==
    /\ out.op = "kmer_count" /\ out.ret = "Ok"
    /\ out.value > StoredCount(ProfileNamed(out.name))
    /\ StoredCount(ProfileNamed(out.name)) > 0

(***************************************************************************)
(* The store, statement by statement.  add_profile and remove_profile run  *)
(* their statements inside a rusqlite Transaction: the tables other        *)
(* readers see (profiles, kmers) change at tx.commit() only, and a         *)
(* statement that fails leaves through `?`, which drops the Transaction    *)
(* and rolls it back.  tx holds the tables as the open transaction sees    *)
(* them and the statements it has still to run.                            *)
(***************************************************************************)

\* impl Display for TaxonomyLevel
LevelToString(level) ==
    CASE level = "Genus" -> "Genus"
      [] level = "Species" -> "Species"
      [] level = "Strain" -> "Strain"

\* the match of get_profile and list_profiles on the text of the column
ParseLevel(text) ==
    CASE text = "Genus" -> "Genus"
      [] text = "Species" -> "Species"
      [] text = "Strain" -> "Strain"
      [] OTHER -> "Err"

\* the Profile create_profile builds from its counter
NewProfile(name, level, ksize, table) ==
    [name |-> name, level |-> level, k |-> ksize,
     frequencies |-> ProfileFrequencies(table), total_kmers |-> MapSum(table)]

\* the frequencies of the Profile of test_database_creation
TestFrequencies == [km \in {AAAA, TTTT} |-> Half]
\* frequencies of which one is not a number
NaNFrequencies == [km \in {AAAA, TTTT} |-> IF km = AAAA THEN Half ELSE NaN]

\* the profiles given to add_profile directly, as test_database_creation does
AddPool ==
    {[name |-> name, level |-> level, k |-> 4, frequencies |-> f, total_kmers |-> 2] :
        name \in Names, level \in Levels, f \in {TestFrequencies, NaNFrequencies}}

\* INSERT INTO profiles (name, taxonomy_level, k, total_kmers)
HeaderRow(id, profile) ==
    [id |-> id, name |-> profile.name, taxonomy_level |-> LevelToString(profile.level),
     k |-> profile.k, total_kmers |-> profile.total_kmers]

\* INSERT INTO kmers (profile_id, kmer, frequency), for each entry of profile.frequencies
KmerRows(id, profile) ==
    {[profile_id |-> id, kmer |-> km, frequency |-> profile.frequencies[km]] :
        km \in DOMAIN profile.frequencies}

\* the transaction of add_profile: the header first, then the k-mer rows in
\* the order the HashMap gives them, which is any order
AddTransaction(profile, result) ==
    [kind |-> "add", out |-> result, profile |-> profile,
     profiles |-> profiles, kmers |-> kmers,
     statements |-> <<[stmt |-> "insert_profile", arg |-> HeaderRow(NextRowId, profile)]>>,
     rows |-> KmerRows(NextRowId, profile)]

\* the transaction of remove_profile: the k-mer rows first, then the header
RemoveTransaction(name, id) ==
    [kind |-> "remove", out |-> [op |-> "remove", name |-> name, ret |-> "true"],
     profiles |-> profiles, kmers |-> kmers,
     statements |-> <<[stmt |-> "delete_kmers", arg |-> id],
                      [stmt |-> "delete_profile", arg |-> id]>>,
     rows |-> {}]

\* a statement the schema refuses: name is UNIQUE, (profile_id, kmer) is the
\* primary key of kmers, and frequency is NOT NULL, which is what SQLite
\* makes of a value that is not a number
StatementFails(st) ==
    CASE st.stmt = "insert_profile" -> \E p \in tx.profiles : p.name = st.arg.name
      [] st.stmt = "insert_kmer" ->
            \/ st.arg.frequency = NaN
            \/ \E r \in tx.kmers : r.profile_id = st.arg.profile_id /\ r.kmer = st.arg.kmer
      [] OTHER -> FALSE

\* the rows of table profiles of the transaction after the statement
ProfilesAfter(st) ==
    CASE st.stmt = "insert_profile" -> tx.profiles \cup {st.arg}
      [] st.stmt = "delete_profile" -> {p \in tx.profiles : p.id # st.arg}
      [] OTHER -> tx.profiles

\* DELETE FROM kmers without its WHERE
KmersAfterDeleteAll(st) ==
    CASE st.stmt = "insert_kmer" -> tx.kmers \cup {st.arg}
      [] st.stmt = "delete_kmers" -> {}
      [] OTHER -> tx.kmers

\* the rows of table kmers of the transaction after the statement
KmersAfter(st) ==
    CASE st.stmt = "insert_kmer" -> tx.kmers \cup {st.arg}
      [] st.stmt = "delete_kmers" -> {r \in tx.kmers : r.profile_id # st.arg}
      [] OTHER -> tx.kmers

\* a connection without a transaction: every statement is committed at once
VisibleAutocommit(committed, staged) == staged

\* what the other readers see of a table while the transaction is open
Visible(committed, staged) == committed

\* the statements the open transaction may run next
NextStatements ==
    IF tx.statements # <<>> THEN {Head(tx.statements)}
    ELSE {[stmt |-> "insert_kmer", arg |-> r] : r \in tx.rows}

\* the result of the call when it leaves through `?`
Failed(result) == [result EXCEPT !.ret = "Err"]

\* Database::add_profile, up to the transaction
AddProfileCall(profile) ==
    /\ out = NoOut
    /\ tx = NoTx
    /\ IF ProfileExists(profile.name)
       THEN /\ out' = [op |-> "add", name |-> profile.name, ret |-> "Ok"]
            /\ UNCHANGED tx
       ELSE /\ NextRowId <= MaxRowId
            /\ tx' = AddTransaction(profile, [op |-> "add", name |-> profile.name, ret |-> "Ok"])
            /\ UNCHANGED out
    /\ UNCHANGED <<counterVars, workerVars, readerVars, profiles, kmers>>

\* Database::create_profile, up to the transaction of its add_profile
CreateProfileCall(name, level, ksize, inputs) ==
    /\ out = NoOut
    /\ tx = NoTx
    /\ IF CountPanics(ksize, inputs)
       THEN /\ out' = [op |-> "create", name |-> name, ret |-> "panic"]
            /\ UNCHANGED tx
       ELSE IF ProfileExists(name)
       THEN /\ out' = [op |-> "create", name |-> name, ret |-> "Err"]
            /\ UNCHANGED tx
       ELSE /\ NextRowId <= MaxRowId
            /\ tx' = AddTransaction(NewProfile(name, level, ksize, CountAll(ksize, EmptyMap, inputs)),
                                    [op |-> "create", name |-> name, ret |-> "Ok"])
            /\ UNCHANGED out
    /\ UNCHANGED <<counterVars, workerVars, readerVars, profiles, kmers>>

\* every existing profile ends the command successfully, asked for or not
ExistingOutcomeOk(skip_existing) == "Ok"

\* handle_db_command, Create: what the command returns for a stored name
ExistingOutcome(skip_existing) == IF skip_existing THEN "Ok" ELSE "Err"

\* handle_db_command, DatabaseSubcommand::Create
CreateCommand(name, level, ksize, inputs, skip_existing) ==
    /\ out = NoOut
    /\ tx = NoTx
    /\ IF ProfileExists(name)
       THEN /\ out' = [op |-> "create_cmd", name |-> name, skip_existing |-> skip_existing,
                       ret |-> ExistingOutcome(skip_existing)]
            /\ UNCHANGED tx
       ELSE IF CountPanics(ksize, inputs)
       THEN /\ out' = [op |-> "create_cmd", name |-> name, skip_existing |-> skip_existing,
                       ret |-> "panic"]
            /\ UNCHANGED tx
       ELSE /\ NextRowId <= MaxRowId
            /\ tx' = AddTransaction(NewProfile(name, level, ksize, CountAll(ksize, EmptyMap, inputs)),
                                    [op |-> "create_cmd", name |-> name,
                                     skip_existing |-> skip_existing, ret |-> "Ok"])
            /\ UNCHANGED out
    /\ UNCHANGED <<counterVars, workerVars, readerVars, profiles, kmers>>

\* Database::remove_profile, up to its first DELETE
RemoveProfileCall(name) ==
    /\ out = NoOut
    /\ tx = NoTx
    /\ IF ProfileExists(name)
       THEN /\ tx' = RemoveTransaction(name, (CHOOSE p \in profiles : p.name = name).id)
            /\ UNCHANGED out
       ELSE /\ out' = [op |-> "remove", name |-> name, ret |-> "false"]
            /\ UNCHANGED tx
    /\ UNCHANGED <<counterVars, workerVars, readerVars, profiles, kmers>>

\* tx.execute / stmt.execute: the next statement of the open transaction; a
\* statement the schema refuses ends the call and rolls the transaction back
TxExecute ==
    /\ tx # NoTx
    /\ \E st \in NextStatements :
          IF StatementFails(st)
          THEN /\ tx' = NoTx
               /\ out' = Failed(tx.out)
               /\ UNCHANGED <<profiles, kmers>>
          ELSE /\ tx' = [tx EXCEPT !.profiles = ProfilesAfter(st),
                                   !.kmers = KmersAfter(st),
                                   !.statements = IF tx.statements # <<>> THEN Tail(tx.statements)
                                                  ELSE <<>>,
                                   !.rows = IF tx.statements # <<>> THEN tx.rows
                                            ELSE tx.rows \ {st.arg}]
               /\ profiles' = Visible(profiles, ProfilesAfter(st))
               /\ kmers' = Visible(kmers, KmersAfter(st))
               /\ UNCHANGED out
    /\ UNCHANGED <<counterVars, workerVars, readerVars>>

\* tx.commit(): every statement has run
TxCommit ==
    /\ tx # NoTx
    /\ tx.statements = <<>>
    /\ tx.rows = {}
    /\ profiles' = tx.profiles
    /\ kmers' = tx.kmers
    /\ out' = tx.out
    /\ tx' = NoTx
    /\ UNCHANGED <<counterVars, workerVars, readerVars>>

\* a statement or the commit fails for a reason outside the program (the
\* file is locked, the disk is full): the call leaves through `?` and the
\* dropped Transaction is rolled back
TxFail ==
    /\ tx # NoTx
    /\ tx' = NoTx
    /\ out' = Failed(tx.out)
    /\ UNCHANGED <<profiles, kmers>>
    /\ UNCHANGED <<counterVars, workerVars, readerVars>>

\* every k-mer row of the store, whatever its profile
RowsOfAny(name) == kmers

\* SELECT kmer, frequency FROM kmers
\* WHERE profile_id = (SELECT id FROM profiles WHERE name = ?)
RowsOf(name) == {r \in kmers : \E p \in profiles : p.name = name /\ r.profile_id = p.id}

\* the Profile get_profile builds from the header and the k-mer rows
StoredProfile(name) ==
    LET p == CHOOSE q \in profiles : q.name = name
        rows == RowsOf(name)
    IN  [name |-> name, level |-> ParseLevel(p.taxonomy_level), k |-> p.k,
         frequencies |-> [km \in {r.kmer : r \in rows} |->
                             (CHOOSE r \in rows : r.kmer = km).frequency],
         total_kmers |-> p.total_kmers]

\* Database::get_profile
GetProfile(name) ==
    /\ out = NoOut
    /\ tx = NoTx
    /\ out' = IF ~ ProfileExists(name) THEN [op |-> "get", name |-> name, ret |-> "None"]
              ELSE IF ParseLevel((CHOOSE q \in profiles : q.name = name).taxonomy_level) = "Err"
              THEN [op |-> "get", name |-> name, ret |-> "Err"]
              ELSE [op |-> "get", name |-> name, ret |-> "Some", profile |-> StoredProfile(name)]
    /\ UNCHANGED <<counterVars, workerVars, readerVars, profiles, kmers, tx>>

\* ORDER BY name, for the names in use
NameOrder == <<"RefA", "RefB">>

\* the value of list_profiles' level: a level or None
LevelFilters == Levels \cup {"None"}

RECURSIVE ListRows(_, _)
\* the rows of list_profiles' query, as ProfileSummary (without created_at)
ListRows(names, level) ==
    IF names = <<>> THEN <<>>
    ELSE LET hit == {p \in profiles : /\ p.name = Head(names)
                                      /\ (level = "None" \/ p.taxonomy_level = LevelToString(level))}
         IN  (IF hit = {} THEN <<>>
              ELSE LET p == CHOOSE q \in hit : TRUE
                   IN  <<[name |-> p.name, level |-> ParseLevel(p.taxonomy_level),
                          k |-> p.k, total_kmers |-> p.total_kmers]>>)
             \o ListRows(Tail(names), level)

\* Database::list_profiles
ListProfiles(level) ==
    /\ out = NoOut
    /\ tx = NoTx
    /\ out' = [op |-> "list", level |-> level, ret |-> "Ok", rows |-> ListRows(NameOrder, level)]
    /\ UNCHANGED <<counterVars, workerVars, readerVars, profiles, kmers, tx>>

RECURSIVE FrequencySum(_)
\* SUM(frequency) over rows of one profile
FrequencySum(rows) ==
    IF rows = {} THEN Zero
    ELSE LET r == CHOOSE x \in rows : TRUE
         IN  FAdd(r.frequency, FrequencySum(rows \ {r}))

\* (freq_sum - 1.0).abs() > 0.01
FarFromOne(freq_sum) ==
    IF freq_sum.d = 0 THEN freq_sum.n # 0
    ELSE (IF freq_sum.n >= freq_sum.d THEN freq_sum.n - freq_sum.d
          ELSE freq_sum.d - freq_sum.n) * 100 > freq_sum.d

\* frequency <= 0 OR frequency > 1
InvalidFrequency(f) ==
    IF f.d = 0 THEN f.n # 0 ELSE f.n <= 0 \/ f.n > f.d

\* the errors of validate_data and validate_references; the schema of
\* validate_schema is the one initialize_schema made
ValidationErrors ==
    {e \in {"invalid_levels", "invalid_counts", "invalid_freqs", "frequency_sum", "orphaned"} :
        CASE e = "invalid_levels" ->
                \E p \in profiles : p.taxonomy_level \notin {"Species", "Genus", "Strain"}
          [] e = "invalid_counts" ->
                \E p \in profiles : p.k <= 0 \/ p.total_kmers <= 0
          [] e = "invalid_freqs" ->
                \E r \in kmers : InvalidFrequency(r.frequency)
          [] e = "frequency_sum" ->
                \E id \in {r.profile_id : r \in kmers} :
                    FarFromOne(FrequencySum({r \in kmers : r.profile_id = id}))
          [] e = "orphaned" ->
                \E r \in kmers : ~ \E p \in profiles : p.id = r.profile_id}

\* the warnings of validate_references: profiles with no k-mers
ValidationWarnings ==
    IF \E p \in profiles : ~ \E r \in kmers : r.profile_id = p.id
    THEN {"empty_profiles"} ELSE {}

\* Database::validate
Validate ==
    /\ out = NoOut
    /\ tx = NoTx
    /\ out' = [op |-> "validate", ret |-> "Ok",
               errors |-> ValidationErrors, warnings |-> ValidationWarnings]
    /\ UNCHANGED <<counterVars, workerVars, readerVars, profiles, kmers, tx>>

\* the reads of the input files of a profile: those of ProfileInputs, and a
\* file whose only read is shorter than every k in use but 1 and 2
StoreInputs == ProfileInputs \cup {<<<<"A", "T">>>>}

\* the commands on the store, one call at a time, with the analyses of a
\* sample counted with --kmer-size k
NextStore ==
    \/ \E name \in Names, level \in Levels, ksize \in {k, k - 1}, inputs \in StoreInputs :
          CreateProfileCall(name, level, ksize, inputs)
    \/ \E name \in Names, level \in Levels, ksize \in {k, k - 1}, inputs \in StoreInputs,
          skip_existing \in BOOLEAN :
          CreateCommand(name, level, ksize, inputs, skip_existing)
    \/ \E profile \in AddPool : AddProfileCall(profile)
    \/ \E name \in Names : RemoveProfileCall(name)
    \/ TxExecute
    \/ TxCommit
    \/ TxFail
    \/ \E name \in Names : GetProfile(name)
    \/ \E level \in LevelFilters : ListProfiles(level)
    \/ Validate
    \/ \E min_similarity \in Similarities, min_shared_kmers \in 0..MaxMinShared,
          taxonomy_level \in Levels :
          tx = NoTx /\ AnalyzeSample(min_similarity, min_shared_kmers, taxonomy_level)
    \/ \E name \in Names : tx = NoTx /\ GetDetailedAnalysis(name)
    \/ tx = NoTx /\ CountSample(ATGATG)
    \/ OutDrop

SpecStore == InitAnalyze /\ [][NextStore]_vars

(***************************************************************************)
(* Claims about the store.                                                 *)
(***************************************************************************)

\* every contiguous piece of length n of the reads
PiecesOf(n, seqs) ==
    UNION {{SubSeq(seqs[j], i, i + n - 1) : i \in 1..(Len(seqs[j]) - n + 1)} : j \in 1..Len(seqs)}

RECURSIVE PieceTotal(_, _)
\* the number of windows of length n of the reads
PieceTotal(n, seqs) ==
    IF seqs = <<>> THEN 0
    ELSE (IF Len(Head(seqs)) - n + 1 > 0 THEN Len(Head(seqs)) - n + 1 ELSE 0)
         + PieceTotal(n, Tail(seqs))

RECURSIVE TotalFrequency(_)
\* the sum of the values of a frequencies map
TotalFrequency(frequencies) ==
    IF DOMAIN frequencies = {} THEN Zero
    ELSE LET km == CHOOSE x \in DOMAIN frequencies : TRUE
         IN  SAdd(frequencies[km],
                  TotalFrequency([x \in (DOMAIN frequencies) \ {km} |-> frequencies[x]]))

\* |x - 1| <= 0.01
NearOne(x) == x.d > 0 /\ Abs(x.n - x.d) * 100 <= x.d

\* the step is a call of create_profile, directly or by the create command,
\* that has built its Profile and opened the transaction of add_profile
BuildsProfile(name, level, ksize, inputs) ==
    /\ tx = NoTx
    /\ tx' # NoTx
    /\ \/ CreateProfileCall(name, level, ksize, inputs)
       \/ \E skip_existing \in BOOLEAN : CreateCommand(name, level, ksize, inputs, skip_existing)

\* C21: the Profile create_profile builds from a counter that holds at least
\* one k-mer has total_kmers equal to the number of windows counted and, for
\* exactly the distinct k-mers of the counter, frequency = count / total_kmers;
\* so every frequency is greater than 0 and at most 1 and the frequencies sum
\* to 1 (within 0.01).
C21_FrequenciesFromCounter ==
    [][(tx = NoTx /\ tx' # NoTx /\ tx'.kind = "add") =>
          \A name \in {tx'.profile.name}, level \in {tx'.profile.level},
             ksize \in {tx'.profile.k}, inputs \in StoreInputs :
             (BuildsProfile(name, level, ksize, inputs) /\ PiecesOf(ksize, inputs) # {}) =>
                 LET profile == tx'.profile
                 IN  /\ profile.total_kmers = PieceTotal(ksize, inputs)
                     /\ DOMAIN profile.frequencies = PiecesOf(ksize, inputs)
                     /\ \A km \in DOMAIN profile.frequencies :
                           /\ profile.frequencies[km]
                                 = Frac(OccurrencesIn(km, inputs), profile.total_kmers)
                           /\ profile.frequencies[km].n > 0
                           /\ profile.frequencies[km].n <= profile.frequencies[km].d
                     /\ NearOne(TotalFrequency(profile.frequencies))]_vars

\* create_profile has built a Profile in which a k-mer that was counted
\* twice among five windows has the frequency 2/5
C21_Witness ==
    /\ tx # NoTx
    /\ tx.kind = "add"
    /\ tx.out.op = "create"
    /\ \E km \in DOMAIN tx.profile.frequencies : tx.profile.frequencies[km] = [n |-> 2, d |-> 5]

\* the step commits the transaction of an add_profile
CommitsAdd == TxCommit /\ tx.kind = "add"

\* C22: when add_profile(p) has succeeded for a name that was not stored,
\* get_profile(p.name) finds the profile and builds a Profile with the name,
\* the level, the k, the total_kmers and the frequencies map of p.
C22_RoundTrip ==
    [][CommitsAdd =>
          \A p \in {tx.profile} :
              /\ ProfileExists(p.name)'
              /\ ParseLevel((CHOOSE q \in profiles' : q.name = p.name).taxonomy_level) # "Err"
              /\ StoredProfile(p.name)' = p]_vars

\* get_profile has returned the Profile of test_database_creation, which
\* add_profile had been given, while another profile is stored too
C22_Witness ==
    /\ out.op = "get"
    /\ out.ret = "Some"
    /\ out.profile \in AddPool
    /\ Cardinality(profiles) = 2

\* no two headers have the same name
UniqueNames == \A p, q \in profiles : p.name = q.name => p = q

\* the step leaves the tables as they are and opens no transaction
StoreUntouched == profiles' = profiles /\ kmers' = kmers /\ tx' = NoTx

NoOrphans == \A r \in kmers : \E p \in profiles : p.id = r.profile_id

\* the step adds one header with the name and, under its id, exactly one row
\* for each entry of the frequencies, and nothing else
AddsWhole(name, frequencies) ==
    \E h \in profiles' \ profiles :
        /\ h.name = name
        /\ profiles' = profiles \cup {h}
        /\ ~ \E r \in kmers : r.profile_id = h.id
        /\ kmers \subseteq kmers'
        /\ {r.kmer : r \in kmers' \ kmers} = DOMAIN frequencies
        /\ Cardinality(kmers' \ kmers) = Cardinality(DOMAIN frequencies)
        /\ \A r \in kmers' \ kmers : r.profile_id = h.id /\ r.frequency = frequencies[r.kmer]

\* the step removes the header with the name and every row under its id, and
\* nothing else
RemovesWhole(name) ==
    \E h \in profiles :
        /\ h.name = name
        /\ profiles' = profiles \ {h}
        /\ kmers' = {r \in kmers : r.profile_id # h.id}

\* C24: the tables change only when a transaction commits, and then by a
\* whole profile: add_profile (called directly or by create_profile) adds
\* the header together with every k-mer row of its Profile, remove_profile
\* removes the header together with every row under it.  A call that fails
\* part-way changes nothing, and in every state every k-mer row belongs to a
\* header.
C24_Atomic ==
    [][/\ NoOrphans'
       /\ (profiles' # profiles \/ kmers' # kmers) =>
             /\ tx # NoTx
             /\ tx' = NoTx
             /\ out' = tx.out
             /\ IF tx.kind = "add" THEN AddsWhole(tx.profile.name, tx.profile.frequencies)
                ELSE RemovesWhole(tx.out.name)]_vars

\* add_profile has inserted the header and a k-mer row in its transaction,
\* and the row it has still to insert is one the schema refuses
C24_Witness ==
    /\ tx # NoTx
    /\ tx.kind = "add"
    /\ tx.profiles # profiles
    /\ tx.kmers # kmers
    /\ \E r \in tx.rows : r.frequency = NaN
    /\ profiles # {}

\* the step commits the transaction of remove_profile(name)
CommitsRemove(name) == TxCommit /\ tx.kind = "remove" /\ tx.out.name = name

\* C25: a stored profile stays as it is until remove_profile removes it: no
\* step of add_profile, create_profile or the create command (with its name
\* or another), of remove_profile of another name, of analyze_sample,
\* get_detailed_analysis, get_profile, list_profiles or validate changes its
\* header (k, taxonomy level, total_kmers) or any of its k-mer rows.
C25_AppendOnly ==
    [][\A p \in profiles :
          \/ CommitsRemove(p.name)
          \/ /\ p \in profiles'
             /\ {r \in kmers' : r.profile_id = p.id} = {r \in kmers : r.profile_id = p.id}]_vars

\* remove_profile has removed a profile while another one, with k-mer rows,
\* is stored
C25_Witness ==
    /\ out.op = "remove"
    /\ out.ret = "true"
    /\ \E p \in profiles : \E r \in kmers : r.profile_id = p.id

(***************************************************************************)
(* Further claims about the analyzer.                                      *)
(***************************************************************************)

\* the k-mer rows of the profile whose k-mer is a window of the sample
SharedRows(p) == {r \in kmers : r.profile_id = p.id /\ r.kmer \in Pieces(k)}

\* the sum of the frequencies of the rows, which have distinct k-mers
RowFrequencySum(rows) ==
    TotalFrequency([km \in {r.kmer : r \in rows} |-> (CHOOSE r \in rows : r.kmer = km).frequency])

\* the scores of the profile against the sample, from the sample's reads and
\* the stored rows
ScoresOf(p) ==
    LET shared == SharedRows(p)
        sum == RowFrequencySum(shared)
    IN  [name |-> p.name,
         sample_coverage |-> FDiv(Cardinality(shared), SampleDistinct),
         shared_kmers |-> Cardinality(shared),
         core_matches |-> Cardinality({r \in shared : r.frequency.n * 20 >= 19 * r.frequency.d}),
         rare_matches |-> Cardinality({r \in shared : r.frequency.n * 10 <= r.frequency.d}),
         avg_frequency |-> IF shared = {} THEN Zero
                           ELSE Frac(sum.n, sum.d * Cardinality(shared)),
         size_ratio |-> FDiv(SampleDistinct, StoredCount(p))]

\* the step is an analysis: analyze_sample or get_detailed_analysis
AnalysisStep == out = NoOut /\ out'.op \in {"analyze", "detail"}

\* C26: analyze_sample and get_detailed_analysis leave the counter's table
\* and the rows of the store as they are, and the matches analyze_sample
\* returns are the ones these determine, each with the scores these
\* determine; so a second analysis of the same counter and store returns
\* the same matches with the same scores.
C26_ReadOnly ==
    [][AnalysisStep =>
          /\ counts' = counts /\ k' = k
          /\ profiles' = profiles /\ kmers' = kmers
          /\ (out'.op = "analyze" /\ out'.ret = "Ok") =>
                /\ \A i \in 1..Len(out'.matches) :
                      \E p \in Candidates(out'.cfg.taxonomy_level) :
                          out'.matches[i] = ScoresOf(p)
                /\ \A i, j \in 1..Len(out'.matches) :
                      out'.matches[i].name = out'.matches[j].name => i = j]_vars

\* an analysis of a sample with k-mers has returned a match that shares a
\* k-mer with the sample
C26_Witness ==
    /\ out.op = "analyze" /\ out.ret = "Ok"
    /\ counts # EmptyMap
    /\ \E i \in 1..Len(out.matches) : out.matches[i].shared_kmers >= 2

\* C27: every match analyze_sample returns has a sample_coverage between 0
\* and 1 and a shared_kmers that exceeds neither the number of distinct
\* k-mers of the sample nor the number of k-mers stored for the profile; with
\* a min_similarity above 1 (1.01) the result is empty, whatever the sample
\* and the store.
C27_CoverageBounded ==
    (out.op = "analyze" /\ out.ret = "Ok") =>
        /\ \A i \in 1..Len(out.matches) :
              LET m == out.matches[i]
              IN  /\ InUnit(m.sample_coverage)
                  /\ m.shared_kmers <= SampleDistinct
                  /\ m.shared_kmers <= StoredCount(ProfileNamed(m.name))
        /\ out.cfg.min_similarity = AboveOne => out.matches = <<>>

\* an analysis with min_similarity 1.01 of a sample all of whose k-mers a
\* candidate profile holds
C27_Witness ==
    /\ out.op = "analyze" /\ out.ret = "Ok"
    /\ out.cfg.min_similarity = AboveOne
    /\ out.cfg.min_shared_kmers = 0
    /\ SampleDistinct >= 2
    /\ \E p \in Candidates(out.cfg.taxonomy_level) : SharedWith(p) = SampleDistinct

\* C28: analyze_sample never aborts in its sort: no match it returns has a
\* sample_coverage that is not a number, for a sample without k-mers too (no
\* profile is accepted then).  The matches are in non-increasing order of
\* sample_coverage, and matches of equal sample_coverage are in the order of
\* their profiles in the store.
C28_SortNeverAborts ==
    out.op = "analyze" =>
        /\ out.ret = "Ok"
        /\ \A i \in 1..Len(out.matches) : out.matches[i].sample_coverage # NaN
        /\ counts = EmptyMap => out.matches = <<>>
        /\ \A i, j \in 1..Len(out.matches) :
              i < j =>
                 /\ PartialCmp(out.matches[i].sample_coverage,
                               out.matches[j].sample_coverage) \in {"greater", "equal"}
                 /\ out.matches[i].sample_coverage = out.matches[j].sample_coverage =>
                       ProfileNamed(out.matches[i].name).id < ProfileNamed(out.matches[j].name).id

\* an analysis that returns two matches of equal sample_coverage below 1
C28_Witness ==
    /\ out.op = "analyze" /\ out.ret = "Ok"
    /\ Len(out.matches) = 2
    /\ out.matches[1].sample_coverage = out.matches[2].sample_coverage
    /\ out.matches[1].sample_coverage # One
    /\ out.matches[1].shared_kmers # out.matches[2].shared_kmers
         \/ out.matches[1].size_ratio # out.matches[2].size_ratio

\* the ProfileMatch values compare_with_profile computes for the profile of
\* the last detailed analysis and the sample counter
MatchValues ==
    ComparisonSummary(ProfileNamed(out.name).id, out.name, GetCountsOf(counts))

\* C29: for the same counter and stored profile the statistics of
\* get_detailed_analysis agree with the ProfileMatch values of
\* compare_with_profile: total_shared is shared_kmers, core_matches and
\* rare_matches are the same; and every shared k-mer is in exactly one of
\* the buckets high_freq (frequency >= 0.75), mid_freq (0.25 <= frequency <
\* 0.75) and low_freq (frequency < 0.25), so the three add up to total_shared.
C29_StatisticsAgree ==
    DetailSome =>
        LET statistics == out.statistics
            dist == out.statistics.frequency_distribution
            shared == SharedRows(ProfileNamed(out.name))
        IN  /\ statistics.total_shared = MatchValues.shared_kmers
            /\ statistics.total_shared = Cardinality(shared)
            /\ statistics.core_matches = MatchValues.core_matches
            /\ statistics.rare_matches = MatchValues.rare_matches
            /\ dist.high_freq
                  = Cardinality({r \in shared : 4 * r.frequency.n >= 3 * r.frequency.d})
            /\ dist.mid_freq
                  = Cardinality({r \in shared : /\ 4 * r.frequency.n >= r.frequency.d
                                                /\ 4 * r.frequency.n < 3 * r.frequency.d})
            /\ dist.low_freq
                  = Cardinality({r \in shared : 4 * r.frequency.n < r.frequency.d})
            /\ dist.high_freq + dist.mid_freq + dist.low_freq = statistics.total_shared

\* a detailed analysis with two shared k-mers, one of frequency 9/10 and one
\* of frequency 1/10, which is a rare match
C29_Witness ==
    /\ DetailSome
    /\ out.statistics.total_shared = 2
    /\ out.statistics.rare_matches = 1
    /\ out.statistics.core_matches = 0
    /\ out.statistics.frequency_distribution.high_freq = 1
    /\ out.statistics.frequency_distribution.low_freq = 1

\* C30 (as stated): in every state of the store reached by create_profile
\* and remove_profile calls, Database::validate reports no error: every
\* profile has k > 0 and total_kmers > 0 and a valid taxonomy level, every
\* frequency is greater than 0 and at most 1, the frequencies of a profile
\* sum to 1 within 0.01 and no k-mer row is orphaned; profiles created from
\* input in which no read is at least k long are included.  The states taken
\* here are those all of whose profiles were created with a k of at least 1.
C30_ValidatePasses ==
    (out.op = "validate" /\ \A p \in profiles : p.k > 0) =>
        /\ out.errors = {}
        /\ \A p \in profiles : p.total_kmers > 0

=============================================================================
